---- MODULE Spec2Model ----
(***************************************************************************)
(* ETS2CompanyLogoDownloader.py: the harvest thread LogoDownloaderWorker   *)
(* (run, stop) and the window FullSizeLogoDownloader that starts it,       *)
(* cancels it and receives its queued progress / status_update signals.    *)
(*                                                                         *)
(* Strings the code inspects (URLs, file names) are tuples of one-letter   *)
(* strings, so that startswith, `in`, split, basename and the sanitising   *)
(* join are computed letter by letter as the code computes them.           *)
(***************************************************************************)
EXTENDS Integers, Sequences, FiniteSets, TLC

\* ------------------------------------------------------------------ bounds
MaxImages == 3      \* longest page, in <img> elements
MaxGuiImages == 1   \* longest page under SpecGui
MaxWorkers == 2     \* LogoDownloaderWorker objects start_download may create

\* --------------------------------------------------------------- constants
MinBytes == 5000    \* `if len(img_data) < 5000`

\* ----------------------------------------------------------- string helpers
StartsWith(s, p) == Len(s) >= Len(p) /\ SubSeq(s, 1, Len(p)) = p

\* str.find + 1: the first position where p occurs in s, 0 when it does not
Find(s, p) ==
    LET hits == {i \in 1..(Len(s) - Len(p) + 1) : SubSeq(s, i, i + Len(p) - 1) = p}
    IN  IF hits = {} THEN 0 ELSE CHOOSE i \in hits : \A j \in hits : i <= j

Contains(s, p) == Find(s, p) # 0

\* s.split(p)[0]
SplitFirst(s, p) == IF Find(s, p) = 0 THEN s ELSE SubSeq(s, 1, Find(s, p) - 1)

\* os.path.basename: what follows the last "/"
Basename(s) ==
    LET slashes == {i \in 1..Len(s) : s[i] = "/"}
        last == IF slashes = {} THEN 0
                ELSE CHOOSE i \in slashes : \A j \in slashes : j <= i
    IN  SubSeq(s, last + 1, Len(s))

\* str.isalnum on the letters the model's URLs are written with
AlNum == {"a", "b", "c", "d", "e", "g", "h", "i", "j", "k", "l", "m", "n", "o",
          "p", "r", "s", "t", "v", "w", "x",
          "0", "1", "2", "3", "4", "5", "6", "7", "8", "9"}

RECURSIVE RStrip(_)
RStrip(s) == IF s # <<>> /\ s[Len(s)] = " " THEN RStrip(SubSeq(s, 1, Len(s) - 1)) ELSE s

\* "".join(c for c in img_name if c.isalnum() or c in (' ', '.', '_')).rstrip()
KeepChar(c) == c \in AlNum \/ c \in {" ", ".", "_"}
Sanitize(name) == RStrip(SelectSeq(name, KeepChar))

DigitChars == <<"0", "1", "2", "3", "4", "5", "6", "7", "8", "9">>
RECURSIVE Str(_)
Str(n) == IF n < 10 THEN <<DigitChars[n + 1]>>
          ELSE Str(n \div 10) \o <<DigitChars[(n % 10) + 1]>>

\* f"logo_{idx}.jpg"
FallbackName(idx) == <<"l", "o", "g", "o", "_">> \o Str(idx) \o <<".", "j", "p", "g">>

\* ------------------------------------------------------------ the web site
Http == <<"h", "t", "t", "p", ":", "/", "/">>
Https == <<"h", "t", "t", "p", "s", ":", "/", "/">>
DataImagePrefix == <<"d", "a", "t", "a", ":", "i", "m", "a", "g", "e">>
DataPrefix == <<"d", "a", "t", "a", ":">>
ImagesSeg == <<"/", "i", "m", "a", "g", "e", "s", "/">>
RevisionSeg == <<"/", "r", "e", "v", "i", "s", "i", "o", "n", "/">>
Host == Http \o <<"w">>
Latest == RevisionSeg \o <<"l", "a", "t", "e", "s", "t">>
NoAttr == <<>>      \* img.get(...) is None or "": both are falsy

\* The <img> elements a page is made of: [data_src, src].
Catalog == <<
    \* 1: lazy-loaded logo .../images/a/logo1.png/revision/latest behind a placeholder
    [data_src |-> Host \o ImagesSeg \o <<"a", "/", "l", "o", "g", "o", "1", ".", "p", "n", "g">> \o Latest,
     src |-> DataImagePrefix \o <<"/", "g", "i", "f", ";", "x">>],
    \* 2: inline data:image/png;x only
    [data_src |-> NoAttr,
     src |-> DataImagePrefix \o <<"/", "p", "n", "g", ";", "x">>],
    \* 3: UI chrome http://w/skins/icon.png, no /images/ segment
    [data_src |-> NoAttr,
     src |-> Host \o <<"/", "s", "k", "i", "n", "s", "/", "i", "c", "o", "n", ".", "p", "n", "g">>],
    \* 4: no data-src and no src
    [data_src |-> NoAttr, src |-> NoAttr],
    \* 5: http://w/images/b/logo-1.png, sanitised to logo1.png
    [data_src |-> NoAttr,
     src |-> Host \o ImagesSeg \o <<"b", "/", "l", "o", "g", "o", "-", "1", ".", "p", "n", "g">>],
    \* 6: http://w/images/c/logo/revision/latest, a last segment without a "."
    [data_src |-> NoAttr,
     src |-> Host \o ImagesSeg \o <<"c", "/", "l", "o", "g", "o">> \o Latest],
    \* 7: data:text,/images/x.png, a data URI that is not data:image and holds /images/
    [data_src |-> NoAttr,
     src |-> DataPrefix \o <<"t", "e", "x", "t", ",">> \o ImagesSeg \o <<"x", ".", "p", "n", "g">>]
>>

ImgKinds == 1..Len(Catalog)

RECURSIVE PagesOfLen(_)
PagesOfLen(n) == IF n = 0 THEN {<<>>}
                 ELSE {Append(p, k) : p \in PagesOfLen(n - 1), k \in ImgKinds}

PagesUpTo(n) == UNION {PagesOfLen(m) : m \in 0..n}

\* status codes requests.get may hand back, besides raising
PageStatuses == {200, 304, 404, 503}
\* len(requests.get(full_size_url).content)
PayloadSizes == {MinBytes - 1, MinBytes}


\* ------------------------------------------------------------------- state
VARIABLES
    page,            \* the document the site serves: <img> elements, as Catalog indexes
    workers,         \* the LogoDownloaderWorker objects, by creation number
    folder_exists,   \* <save_folder>/Downloaded_Company_Logos exists
    fs,              \* names of the files in that folder
    queue,           \* signals emitted by workers, queued for the GUI thread
    gui              \* FullSizeLogoDownloader: its fields, its widgets, its thread

vars == <<page, workers, folder_exists, fs, queue, gui>>

WorkerIds == 1..MaxWorkers

\* A worker slot before LogoDownloaderWorker(...) is called for it.
\* pc: none (not constructed), get (in requests.get of the page), parse, mkdir,
\* loop (at the top of iteration idx), fetch (in requests.get of an image),
\* write (in open/write), ret (run is returning), done (the thread has finished).
\* History kept for the properties: emitted, gets, mkdirs, fetched, opened, saved,
\* written, last_get, stop_pc, stop_idx.
NoWorker ==
    [pc |-> "none", is_running |-> TRUE, response |-> -1, exc |-> "none",
     images |-> <<>>, total_images |-> -1, idx |-> 0, count |-> 0,
     full_size_url |-> <<>>, img_data |-> -1, img_name |-> <<>>,
     emitted |-> <<>>, gets |-> 0, mkdirs |-> 0, fetched |-> {}, opened |-> {},
     saved |-> <<>>, written |-> {}, last_get |-> "none",
     stop_pc |-> "none", stop_idx |-> -1]

\* LogoDownloaderWorker(url, save_folder) followed by start(): run() begins
NewWorker == [NoWorker EXCEPT !.pc = "get", !.gets = 1]

Progress(w, value) == [w |-> w, sig |-> "progress", val |-> value, msg |-> ""]
Status(w, message, n) == [w |-> w, sig |-> "status", val |-> n, msg |-> message]

\* ------------------------------------------------------ pure parts of run()
\* img.get("data-src") or img.get("src")
ResolveUrl(img) == IF img.data_src # NoAttr THEN img.data_src ELSE img.src

\* the filters without the asset-path test of line 50
SkippedByFilter_NoAssetPath(img_url) ==
    \/ img_url = NoAttr
    \/ StartsWith(img_url, DataImagePrefix)

\* the three `continue`s of lines 46-51
SkippedByFilter(img_url) ==
    \/ img_url = NoAttr
    \/ StartsWith(img_url, DataImagePrefix)
    \/ ~Contains(img_url, ImagesSeg)

\* img_url.split("/revision/")[0]
FullSizeUrl(img_url) == SplitFirst(img_url, RevisionSeg)

\* requests.get sends an HTTP request only for an http(s) URL; any other scheme
\* raises InvalidSchema before anything is sent
IsHttpUrl(url) == StartsWith(url, Http) \/ StartsWith(url, Https)

\* a comparison that also rejects a payload of exactly the threshold
TooSmall_Inclusive(size) == size <= MinBytes

\* `if len(img_data) < 5000: continue`
TooSmall(size) == size < MinBytes

\* the early return of lines 30-32 never taken
PageIsEmpty_Never(total_images) == total_images < 0

\* `if total_images == 0`
PageIsEmpty(total_images) == total_images = 0

\* the flag looked at before the first candidate only
ShouldCancel_FirstOnly(r) == ~r.is_running /\ r.idx = 0

\* `if not self.is_running`, evaluated at the top of every iteration
ShouldCancel(r) == ~r.is_running

\* lines 62-66
ImgName(full_size_url, idx) ==
    LET base == Basename(full_size_url)
        name == IF base = <<>> \/ ~Contains(base, <<".">>) THEN FallbackName(idx) ELSE base
    IN  Sanitize(name)

\* round(...) in place of int(...)
ProgressPercent_Rounded(idx, total_images) ==
    (200 * (idx + 1) + total_images) \div (2 * total_images)

\* int(((idx + 1) / total_images) * 100); the float product truncates to the exact
\* floor for every total_images below 50
ProgressPercent(idx, total_images) == (100 * (idx + 1)) \div total_images

\* a status check that lets 5xx through
RaisesForStatus_ClientOnly(code) == 400 <= code /\ code < 500

\* response.raise_for_status() raises HTTPError for 4xx and 5xx
RaisesForStatus(code) == 400 <= code /\ code < 600

\* --------------------------------------------------- LogoDownloaderWorker
SetWorker(w, r) == workers' = [workers EXCEPT ![w] = r]
Emit(signals) == queue' = queue \o signals
Sent(r, signals) == [r EXCEPT !.emitted = @ \o signals]

\* lines 24-25 and the handler of lines 81-82
GetPage(w) ==
    LET r == workers[w] IN
    /\ r.pc = "get"
    /\ \E outcome \in {-1} \cup PageStatuses :
          IF outcome = -1 \/ RaisesForStatus(outcome)
          THEN LET s == <<Status(w, "Network Error", 0)>> IN
               /\ SetWorker(w, Sent([r EXCEPT !.pc = "ret", !.response = outcome,
                                       !.exc = IF outcome = -1 THEN "RequestException"
                                               ELSE "HTTPError"], s))
               /\ Emit(s)
          ELSE /\ SetWorker(w, [r EXCEPT !.pc = "parse", !.response = outcome])
               /\ UNCHANGED queue
    /\ UNCHANGED <<page, folder_exists, fs, gui>>

\* lines 26-32
ParsePage(w) ==
    LET r == workers[w]
        n == Len(page) IN
    /\ r.pc = "parse"
    \* response is not read after line 26
    /\ IF PageIsEmpty(n)
       THEN LET s == <<Status(w, "No images found", 0)>> IN
            /\ SetWorker(w, Sent([r EXCEPT !.pc = "ret", !.response = -1,
                                    !.images = page, !.total_images = n], s))
            /\ Emit(s)
       ELSE /\ SetWorker(w, [r EXCEPT !.pc = "mkdir", !.response = -1,
                                !.images = page, !.total_images = n])
            /\ UNCHANGED queue
    /\ UNCHANGED <<page, folder_exists, fs, gui>>

\* lines 34-38, and the handler of lines 83-84 when os.makedirs raises
MakeDirs(w) ==
    LET r == workers[w] IN
    /\ r.pc = "mkdir"
    /\ \/ LET s == <<Progress(w, 0)>> IN
          /\ folder_exists' = TRUE
          /\ SetWorker(w, Sent([r EXCEPT !.pc = "loop", !.mkdirs = @ + 1,
                                  !.idx = 0, !.count = 0], s))
          /\ Emit(s)
       \/ LET s == <<Status(w, "Error", 0)>> IN
          /\ UNCHANGED folder_exists
          /\ SetWorker(w, Sent([r EXCEPT !.pc = "ret", !.exc = "OSError"], s))
          /\ Emit(s)
    /\ UNCHANGED <<page, fs, gui>>

\* lines 41-43
Canceled(w) ==
    LET r == workers[w] IN
    /\ r.pc = "loop" /\ r.idx < r.total_images
    /\ ShouldCancel(r)
    /\ LET s == <<Status(w, "Download canceled", 0)>> IN
       /\ SetWorker(w, Sent([r EXCEPT !.pc = "ret"], s))
       /\ Emit(s)
    /\ UNCHANGED <<page, folder_exists, fs, gui>>

\* lines 41, 45-51: the candidate is skipped, nothing is emitted
SkipCandidate(w) ==
    LET r == workers[w] IN
    /\ r.pc = "loop" /\ r.idx < r.total_images
    /\ ~ShouldCancel(r)
    /\ SkippedByFilter(ResolveUrl(Catalog[r.images[r.idx + 1]]))
    /\ SetWorker(w, [r EXCEPT !.idx = @ + 1])
    /\ UNCHANGED <<page, folder_exists, fs, queue, gui>>

\* lines 41, 45-56: requests.get(full_size_url) is called
BeginFetch(w) ==
    LET r == workers[w]
        img_url == ResolveUrl(Catalog[r.images[r.idx + 1]])
        url == FullSizeUrl(img_url) IN
    /\ r.pc = "loop" /\ r.idx < r.total_images
    /\ ~ShouldCancel(r)
    /\ ~SkippedByFilter(img_url)
    /\ SetWorker(w, [r EXCEPT !.pc = "fetch", !.full_size_url = url,
                        !.fetched = IF IsHttpUrl(url) THEN @ \cup {r.idx} ELSE @])
    /\ UNCHANGED <<page, folder_exists, fs, queue, gui>>

\* lines 56-60: requests.get raises
FetchRaises(w) ==
    LET r == workers[w] IN
    /\ r.pc = "fetch"
    /\ SetWorker(w, [r EXCEPT !.pc = "loop", !.idx = @ + 1, !.last_get = "raised"])
    /\ UNCHANGED <<page, folder_exists, fs, queue, gui>>

\* lines 56-58 and 62-70: requests.get returns a payload
FetchReturns(w) ==
    LET r == workers[w] IN
    /\ r.pc = "fetch"
    /\ IsHttpUrl(r.full_size_url)
    /\ \E size \in PayloadSizes :
          IF TooSmall(size)
          THEN SetWorker(w, [r EXCEPT !.pc = "loop", !.idx = @ + 1,
                                !.img_data = size, !.last_get = "returned"])
          ELSE SetWorker(w, [r EXCEPT !.pc = "write", !.img_data = size,
                                !.last_get = "returned",
                                !.img_name = ImgName(r.full_size_url, r.idx),
                                !.opened = @ \cup {r.idx}])
    /\ UNCHANGED <<page, folder_exists, fs, queue, gui>>

\* lines 69-72 and 76-77: the file is written
WriteSucceeds(w) ==
    LET r == workers[w]
        s == <<Progress(w, ProgressPercent(r.idx, r.total_images))>> IN
    /\ r.pc = "write"
    /\ fs' = fs \cup {r.img_name}
    /\ SetWorker(w, Sent([r EXCEPT !.pc = "loop", !.idx = @ + 1, !.count = @ + 1,
                            !.saved = Append(@, r.idx),
                            !.written = @ \cup {r.img_name}], s))
    /\ Emit(s)
    /\ UNCHANGED <<page, folder_exists, gui>>

\* lines 69-74: open raises and there is no file, or f.write raises and the file
\* that open created stays
WriteRaises(w) ==
    LET r == workers[w] IN
    /\ r.pc = "write"
    /\ \E created \in BOOLEAN : fs' = IF created THEN fs \cup {r.img_name} ELSE fs
    /\ SetWorker(w, [r EXCEPT !.pc = "loop", !.idx = @ + 1])
    /\ UNCHANGED <<page, folder_exists, queue, gui>>

\* the loop's end without the progress.emit(100) of line 79
Finish_NoFinalProgress(w) ==
    LET r == workers[w]
        s == <<Status(w, "Downloaded", r.count)>> IN
    /\ r.pc = "loop" /\ r.idx = r.total_images
    /\ SetWorker(w, Sent([r EXCEPT !.pc = "ret"], s))
    /\ Emit(s)
    /\ UNCHANGED <<page, folder_exists, fs, gui>>

\* lines 79-80: the loop is over
Finish(w) ==
    LET r == workers[w]
        s == <<Progress(w, 100), Status(w, "Downloaded", r.count)>> IN
    /\ r.pc = "loop" /\ r.idx = r.total_images
    /\ SetWorker(w, Sent([r EXCEPT !.pc = "ret"], s))
    /\ Emit(s)
    /\ UNCHANGED <<page, folder_exists, fs, gui>>

\* run() returns and the thread finishes: isRunning() is False from here on
Return(w) ==
    LET r == workers[w] IN
    /\ r.pc = "ret"
    /\ SetWorker(w, [r EXCEPT !.pc = "done"])
    /\ UNCHANGED <<page, folder_exists, fs, queue, gui>>

\* QThread.isRunning()
IsRunning(r) == r.pc \notin {"none", "done"}

\* lines 86-87, with the worker's position at the first call kept as history
Stopped(r) ==
    [r EXCEPT !.is_running = FALSE,
              !.stop_pc = IF r.is_running THEN r.pc ELSE @,
              !.stop_idx = IF r.is_running THEN r.idx ELSE @]

\* the controller calls stop() on a running worker
Stop(w) ==
    /\ IsRunning(workers[w])
    /\ workers[w].is_running
    /\ SetWorker(w, Stopped(workers[w]))
    /\ UNCHANGED <<page, folder_exists, fs, queue, gui>>

Run(w) ==
    \/ GetPage(w) \/ ParsePage(w) \/ MakeDirs(w)
    \/ Canceled(w) \/ SkipCandidate(w) \/ BeginFetch(w)
    \/ FetchRaises(w) \/ FetchReturns(w)
    \/ WriteSucceeds(w) \/ WriteRaises(w)
    \/ Finish(w) \/ Return(w)

\* ------------------------------------------------- FullSizeLogoDownloader
\* init_ui, lines 147-163
NewGui ==
    [save_folder |-> FALSE, worker |-> 0, download_btn |-> TRUE, cancel_btn |-> FALSE,
     status_label |-> "Waiting...", style |-> "#2c3e50", progress_bar |-> 0,
     pc |-> "idle"]

\* one harvest: a folder was chosen, Download was clicked, the controller may stop()
Init ==
    /\ page \in PagesUpTo(MaxImages)
    /\ workers = [w \in WorkerIds |-> IF w = 1 THEN NewWorker ELSE NoWorker]
    /\ folder_exists = FALSE
    /\ fs = {}
    /\ queue = <<>>
    /\ gui = [NewGui EXCEPT !.save_folder = TRUE, !.worker = 1, !.download_btn = FALSE,
                            !.cancel_btn = TRUE, !.status_label = "Downloading...",
                            !.style = "#f39c12"]

Next == \E w \in WorkerIds : Run(w) \/ Stop(w)

Spec == Init /\ [][Next]_vars

\* The GUI thread: gui.pc is idle in the event loop (a handler runs to its end as one
\* step) and wait while cancel_download sits in worker.wait().

\* select_folder, lines 175-180: the dialog returns a folder, or "" when dismissed
SelectFolder ==
    /\ gui.pc = "idle"
    /\ \E folder \in BOOLEAN :
          gui' = IF folder
                 THEN [gui EXCEPT !.save_folder = TRUE,
                                  !.status_label = "Selected save folder.",
                                  !.style = "#2c3e50"]
                 ELSE gui
    /\ UNCHANGED <<page, workers, folder_exists, fs, queue>>

\* the creation number of the next LogoDownloaderWorker
NextWorkerId == Cardinality({w \in WorkerIds : workers[w].pc # "none"}) + 1

\* start_download, lines 182-195: a click on the enabled Download button
StartDownload ==
    /\ gui.pc = "idle"
    /\ gui.download_btn
    /\ IF ~gui.save_folder
       THEN UNCHANGED <<workers, gui>>
       ELSE /\ NextWorkerId \in WorkerIds
            /\ SetWorker(NextWorkerId, NewWorker)
            /\ gui' = [gui EXCEPT !.worker = NextWorkerId, !.download_btn = FALSE,
                                  !.cancel_btn = TRUE,
                                  !.status_label = "Downloading...",
                                  !.style = "#f39c12"]
    /\ UNCHANGED <<page, folder_exists, fs, queue>>

\* cancel_download, lines 197-200: a click on the enabled Cancel button; with a
\* running worker the handler calls stop() and enters worker.wait()
CancelDownload ==
    /\ gui.pc = "idle"
    /\ gui.cancel_btn
    /\ IF gui.worker # 0 /\ IsRunning(workers[gui.worker])
       THEN /\ SetWorker(gui.worker, Stopped(workers[gui.worker]))
            /\ gui' = [gui EXCEPT !.pc = "wait"]
       ELSE UNCHANGED <<workers, gui>>
    /\ UNCHANGED <<page, folder_exists, fs, queue>>

\* cancel_download, lines 200-205: worker.wait() returns once run() has returned
CancelDownloadResumes ==
    /\ gui.pc = "wait"
    /\ ~IsRunning(workers[gui.worker])
    /\ gui' = [gui EXCEPT !.pc = "idle", !.status_label = "Download canceled.",
                          !.style = "#e74c3c", !.progress_bar = 0,
                          !.download_btn = TRUE, !.cancel_btn = FALSE]
    /\ UNCHANGED <<page, workers, folder_exists, fs, queue>>

\* animate_progress, lines 207-215, on the oldest queued signal: the animation
\* takes the bar to the value
AnimateProgress ==
    /\ gui.pc = "idle"
    /\ queue # <<>> /\ Head(queue).sig = "progress"
    /\ gui' = [gui EXCEPT !.progress_bar = Head(queue).val]
    /\ queue' = Tail(queue)
    /\ UNCHANGED <<page, workers, folder_exists, fs>>

\* the colour update_status picks, lines 219-224
StatusStyle(message) ==
    IF message = "Downloaded" THEN "#2ecc71"
    ELSE IF message = "Download canceled" THEN "#e74c3c"
    ELSE "#2c3e50"

\* update_status, lines 217-227, on the oldest queued signal
UpdateStatus ==
    /\ gui.pc = "idle"
    /\ queue # <<>> /\ Head(queue).sig = "status"
    /\ gui' = [gui EXCEPT !.status_label = Head(queue).msg,
                          !.style = StatusStyle(Head(queue).msg),
                          !.download_btn = TRUE, !.cancel_btn = FALSE]
    /\ queue' = Tail(queue)
    /\ UNCHANGED <<page, workers, folder_exists, fs>>

\* the window as constructed, no worker yet
InitGui ==
    /\ page \in PagesUpTo(MaxGuiImages)
    /\ workers = [w \in WorkerIds |-> NoWorker]
    /\ folder_exists = FALSE
    /\ fs = {}
    /\ queue = <<>>
    /\ gui = NewGui

NextGui ==
    \/ SelectFolder
    \/ StartDownload
    \/ CancelDownload
    \/ CancelDownloadResumes
    \/ AnimateProgress
    \/ UpdateStatus
    \/ \E w \in WorkerIds : Run(w)

SpecGui == InitGui /\ [][NextGui]_vars

\* -------------------------------------------------------------- properties
IsProgress(s) == s.sig = "progress"
IsStatus(s) == s.sig = "status"

\* the values a worker emitted on progress, in order
ProgressOf(r) ==
    LET ps == SelectSeq(r.emitted, IsProgress) IN [i \in 1..Len(ps) |-> ps[i].val]

\* the messages a worker emitted on status_update, in order
StatusOf(r) ==
    LET ss == SelectSeq(r.emitted, IsStatus) IN [i \in 1..Len(ss) |-> ss[i].msg]

Range(f) == {f[i] : i \in DOMAIN f}
Last(s) == s[Len(s)]
NonDecreasing(s) == \A i \in 1..(Len(s) - 1) : s[i] <= s[i + 1]

\* run() has emitted its last signal
Ended(r) == r.pc \in {"ret", "done"}
\* run() reached the candidate loop: the page was fetched, it has an <img>, and
\* os.makedirs returned
InLoop(r) == r.mkdirs = 1
\* candidates that were fetched over HTTP or written
Touched(r) == r.fetched \cup r.opened \cup Range(r.saved)

\* ---- C1
\* the first iteration whose poll of is_running (line 41) came after stop():
\* total_images when every poll had been made
FirstPollAfterStop(r) ==
    IF r.stop_pc \in {"get", "parse", "mkdir", "loop"} THEN r.stop_idx
    ELSE IF r.stop_pc \in {"fetch", "write"} THEN r.stop_idx + 1
    ELSE r.total_images

\* C1 as stated: in a run over N >= 1 candidates, if stop() sets the flag before
\* the worker finishes candidate k (k in 0..N-1, the last one included), no
\* candidate above k is fetched or written, and the run's one status message is
\* "Download canceled.", never the "Downloaded <count> logos" summary.
C1_CancelBeforeCandidateCompletes ==
    \A w \in WorkerIds :
        LET r == workers[w] IN
        (InLoop(r) /\ r.stop_pc # "none") =>
            \A k \in 0..(r.total_images - 1) :
                r.stop_idx <= k =>
                    /\ \A i \in Touched(r) : i <= k
                    /\ "Downloaded" \notin Range(StatusOf(r))
                    /\ Ended(r) => StatusOf(r) = <<"Download canceled">>

\* C1 amended: in a run that reaches the candidate loop, a flag set before the
\* poll of iteration j (j in 0..N-1) keeps every candidate from j on from being
\* fetched or written and ends the run with the one message "Download canceled.";
\* so a flag set while candidate k is in flight cancels before k+1 when k <= N-2.
\* A flag set while the last candidate is in flight, or later, is never polled:
\* the run ends with progress 100 and the "Downloaded" summary.
C1_CancelAtNextPoll ==
    \A w \in WorkerIds :
        LET r == workers[w]
            j == FirstPollAfterStop(r) IN
        (InLoop(r) /\ r.stop_pc # "none") =>
            IF j < r.total_images
            THEN /\ \A i \in Touched(r) : i < j
                 /\ "Downloaded" \notin Range(StatusOf(r))
                 /\ 100 \notin Range(ProgressOf(r))
                 /\ Ended(r) => StatusOf(r) = <<"Download canceled">>
            ELSE /\ "Download canceled" \notin Range(StatusOf(r))
                 /\ Ended(r) => /\ StatusOf(r) = <<"Downloaded">>
                                /\ Last(ProgressOf(r)) = 100

\* stop() came while candidate 0 of several was being fetched: it was saved, and
\* the run was canceled before candidate 1
C1_Witness ==
    \E w \in WorkerIds :
        LET r == workers[w] IN
        /\ Ended(r) /\ r.total_images >= 2
        /\ r.stop_pc = "fetch" /\ r.stop_idx = 0
        /\ r.saved = <<0>>
        /\ StatusOf(r) = <<"Download canceled">>

\* ---- C2
\* C2 as stated: in every run, whatever its outcome, the progress values are
\* non-decreasing and the last one is exactly 100.
C2_ProgressEndsAt100 ==
    \A w \in WorkerIds :
        LET r == workers[w]
            P == ProgressOf(r) IN
        /\ NonDecreasing(P)
        /\ r.pc = "done" => (P # <<>> /\ Last(P) = 100)

\* C2 amended: in every run the progress values are non-decreasing and within
\* 0..100; the last value is exactly 100 when the run completes the loop (the
\* "Downloaded" summary); a canceled run has emitted values below 100 only, and a
\* run that ends with no images found, a network error or an error emits none.
C2_ProgressMonotone ==
    \A w \in WorkerIds :
        LET r == workers[w]
            P == ProgressOf(r)
            S == StatusOf(r) IN
        /\ NonDecreasing(P)
        /\ \A v \in Range(P) : 0 <= v /\ v <= 100
        /\ Ended(r) =>
              /\ Len(S) = 1
              /\ S[1] = "Downloaded" => (P # <<>> /\ Last(P) = 100)
              /\ S[1] = "Download canceled" => (P # <<>> /\ Last(P) < 100)
              /\ S[1] \in {"No images found", "Network Error", "Error"} => P = <<>>

\* a completed run that saved something: 0, a percentage, ..., 100
C2_Witness ==
    \E w \in WorkerIds :
        LET r == workers[w]
            P == ProgressOf(r) IN
        /\ r.pc = "done" /\ StatusOf(r) = <<"Downloaded">>
        /\ Len(P) >= 3 /\ P[2] > 0 /\ Last(P) = 100

\* ---- C3
\* round(100 * (i + 1) / N), halves up
RoundedPercent(i, n) == (200 * (i + 1) + n) \div (2 * n)

\* C3 as stated: in a run that is not canceled, once candidate i is processed
\* (saved, skipped, rejected or failed) the worker has emitted
\* round(100 * (i + 1) / N): one value per candidate, in index order.
C3_ProgressAfterEveryCandidate ==
    \A w \in WorkerIds :
        LET r == workers[w]
            P == ProgressOf(r) IN
        (InLoop(r) /\ r.pc = "loop" /\ r.stop_pc = "none") =>
            /\ Len(P) = r.idx + 1
            /\ \A i \in 0..(r.idx - 1) : P[i + 2] = RoundedPercent(i, r.total_images)

\* v = floor(100 * (i + 1) / n)
IsTruncatedPercent(v, i, n) == v * n <= 100 * (i + 1) /\ 100 * (i + 1) < (v + 1) * n

\* C3 amended: a run that reaches the candidate loop emits 0 before the first
\* candidate, then int(((i + 1) / N) * 100), the truncated percentage, after each
\* candidate i whose file was written, in index order, and nothing after a
\* candidate that was skipped, rejected for size or failed; then 100 when the
\* loop completes. A run that does not reach the loop emits no progress.
C3_ProgressAfterEverySave ==
    \A w \in WorkerIds :
        LET r == workers[w]
            P == ProgressOf(r)
            finished == "Downloaded" \in Range(StatusOf(r)) IN
        IF ~InLoop(r) THEN P = <<>>
        ELSE /\ Len(P) = 1 + Len(r.saved) + (IF finished THEN 1 ELSE 0)
             /\ P[1] = 0
             /\ \A n \in 1..Len(r.saved) :
                   IsTruncatedPercent(P[n + 1], r.saved[n], r.total_images)
             /\ finished => Last(P) = 100
             /\ r.count = Len(r.saved)

\* three candidates, only the middle one saved: 0, 66, 100
C3_Witness ==
    \E w \in WorkerIds :
        LET r == workers[w] IN
        /\ r.pc = "done" /\ r.total_images = 3
        /\ r.saved = <<1>>
        /\ ProgressOf(r) = <<0, 66, 100>>

\* ---- C4
\* C4 as stated: whenever a worker thread is inside run(), the GUI thread is not
\* waiting on the worker.
C4_ControllerNeverBlocks ==
    \A w \in WorkerIds : IsRunning(workers[w]) => gui.pc # "wait"

\* ---- C5
\* C5 as stated: at most one worker is executing run() at any time.
C5_SingleWorker ==
    Cardinality({w \in WorkerIds : IsRunning(workers[w])}) <= 1

\* ---- C6
\* C6 as stated: the sub-folder is created at most once per run, lazily, on the
\* first need to write an image, and only for a page with an image element; a run
\* over zero image elements reports no images found, saves 0, creates no folder.
C6_LazySubfolder ==
    \A w \in WorkerIds :
        LET r == workers[w] IN
        /\ r.mkdirs <= 1
        /\ r.mkdirs = 1 => (r.total_images >= 1 /\ r.opened # {})
        /\ r.total_images = 0 =>
              /\ r.mkdirs = 0 /\ r.count = 0
              /\ Ended(r) => StatusOf(r) = <<"No images found">>

\* C6 amended: the sub-folder is created at most once per run and only for a page
\* with an image element, but eagerly: before the first candidate is looked at,
\* so it exists throughout the loop and also when no image is ever written; no
\* fetch or write precedes it. A run over zero image elements reports no images
\* found, saves 0 and creates no folder.
C6_EagerSubfolder ==
    \A w \in WorkerIds :
        LET r == workers[w] IN
        /\ r.mkdirs <= 1
        /\ r.mkdirs = 1 => (r.total_images >= 1 /\ folder_exists)
        /\ r.pc \in {"loop", "fetch", "write"} => r.mkdirs = 1
        /\ (Ended(r) /\ r.total_images >= 1 /\ r.exc = "none") => r.mkdirs = 1
        /\ Touched(r) # {} => r.mkdirs = 1
        /\ r.total_images = 0 =>
              /\ r.mkdirs = 0 /\ r.count = 0 /\ r.written = {}
              /\ Ended(r) => StatusOf(r) = <<"No images found">>

\* a completed run that created the folder and never had an image to write
C6_Witness ==
    \E w \in WorkerIds :
        LET r == workers[w] IN
        /\ r.pc = "done" /\ StatusOf(r) = <<"Downloaded">>
        /\ r.mkdirs = 1 /\ folder_exists
        /\ r.opened = {} /\ fs = {}

\* ---- C7
\* the run ended at once with one network-error message and touched nothing
Aborted(w) ==
    LET r == workers[w] IN
    /\ Ended(r)
    /\ r.emitted = <<Status(w, "Network Error", 0)>>
    /\ Touched(r) = {} /\ r.mkdirs = 0 /\ r.written = {}
    /\ r.images = <<>>
    /\ r.gets = 1

\* C7 as stated: if the GET of the page fails, by an exception or a non-2xx
\* status, the run ends at once with exactly one network-error message; nothing
\* is fetched, created or written, and the GET is not repeated.
C7_Non2xxAborts ==
    \A w \in WorkerIds :
        LET r == workers[w] IN
        (r.exc = "RequestException" \/ (r.response # -1 /\ r.response \notin 200..299))
            => Aborted(w)

\* C7 amended: if the GET of the page fails, by an exception or a 4xx or 5xx
\* status, the run ends at once with exactly one network-error message; nothing
\* is fetched, created or written, and the GET is not repeated. Any other status
\* (a 3xx that is not followed, say) is parsed like a 200.
C7_ErrorStatusAborts ==
    \A w \in WorkerIds :
        LET r == workers[w] IN
        /\ (r.exc = "RequestException" \/ r.response \in 400..599) => Aborted(w)
        /\ r.exc = "HTTPError" <=> r.response \in 400..599
        /\ "Network Error" \in Range(StatusOf(r)) => r.exc \in {"RequestException", "HTTPError"}
        /\ r.gets <= 1

\* the page GET came back 503
C7_Witness ==
    \E w \in WorkerIds :
        LET r == workers[w] IN
        /\ r.pc = "done" /\ r.response = 503
        /\ StatusOf(r) = <<"Network Error">>
        /\ page # <<>>

\* ---- C8
\* the <img> elements whose resolved URL (data-src, else src) is a data URI or
\* holds no '/images/'
FilteredKinds ==
    {k \in ImgKinds :
        LET img_url == ResolveUrl(Catalog[k]) IN
        StartsWith(img_url, DataPrefix) \/ ~Contains(img_url, ImagesSeg)}

\* C8: a candidate whose resolved URL is a data URI, or holds no '/images/',
\* is never fetched over HTTP, never written and never counted as saved.
C8_FilteredNeverFetched ==
    \A w \in WorkerIds :
        LET r == workers[w] IN
        /\ r.count = Len(r.saved)
        /\ \A i \in 0..(Len(r.images) - 1) :
              r.images[i + 1] \in FilteredKinds => i \notin Touched(r)

\* a completed run over a data URI, a URL without /images/ and a logo: one saved
C8_Witness ==
    \E w \in WorkerIds :
        LET r == workers[w] IN
        /\ r.pc = "done"
        /\ r.images = <<2, 3, 1>>
        /\ r.saved = <<2>> /\ r.fetched = {2}

\* ---- C9
\* C9 as stated: at the end of a completed run the count in the final status is
\* the number of distinct files the run wrote.
C9_OneFilePerSavedImage ==
    \A w \in WorkerIds :
        LET r == workers[w]
            ss == SelectSeq(r.emitted, IsStatus) IN
        (Ended(r) /\ StatusOf(r) = <<"Downloaded">>) => ss[1].val = Cardinality(r.written)

\* ---- C10
\* C10: a fetch that returns fewer than 5000 bytes is rejected, nothing is
\* written and the count stays; one that returns 5000 bytes or more goes on to
\* the write, and a write that succeeds adds exactly 1 to the count.
C10_SizeBoundary ==
    [][\A w \in WorkerIds :
          LET r == workers[w]
              q == workers'[w] IN
          /\ (r.pc = "fetch" /\ q.pc # "fetch" /\ q.last_get = "returned") =>
                IF q.img_data < 5000
                THEN /\ q.pc = "loop" /\ q.idx = r.idx + 1
                     /\ q.count = r.count /\ q.opened = r.opened
                     /\ q.written = r.written /\ fs' = fs
                ELSE /\ q.pc = "write" /\ q.idx = r.idx
                     /\ q.count = r.count
          /\ (r.pc = "write" /\ q.pc # "write") =>
                /\ r.img_data >= 5000
                /\ IF q.saved = Append(r.saved, r.idx)
                   THEN q.count = r.count + 1 /\ r.img_name \in fs'
                   ELSE q.count = r.count /\ q.saved = r.saved
      ]_vars

\* candidate 0 came back with 5000 bytes and was saved, candidate 1 with 4999 and
\* was not
C10_Witness ==
    \E w \in WorkerIds :
        LET r == workers[w] IN
        /\ r.pc = "loop" /\ r.idx = 2
        /\ r.last_get = "returned" /\ r.img_data = 4999
        /\ r.fetched = {0, 1}
        /\ r.saved = <<0>> /\ r.count = 1

====
